---- MODULE Spec2Model ----
(***************************************************************************)
(* Model of the whatsapp-service of dev-politica-bot: the session wrapper  *)
(* (WhatsAppClient), the rate-limited retrying queue (MessageQueue), the   *)
(* webhook server (GET /health, POST /send-message) and main().            *)
(*                                                                         *)
(* JavaScript runs every handler to completion up to its next await, so    *)
(* each action below is one such run: a call, an event, or the             *)
(* continuation of an await.                                               *)
(***************************************************************************)
EXTENDS Integers, Sequences, FiniteSets, TLC

\* ---------------------------------------------------------------- bounds
MaxItems == 2      \* enqueue() calls accepted in one behaviour
MaxWorkers == 2    \* slots for concurrently running executions of process()
MaxClients == 1    \* platform client handles created in one behaviour
MaxReqs == 1       \* POST /send-message requests in flight at once
MaxEvents == 2     \* platform "message" events delivered in one behaviour

\* ------------------------------------------------------ program constants
DefaultRateLimitDelay == 8000
DefaultMaxAttempts == 3

\* ----------------------------------------------------------------- inputs
Missing == ""                        \* an absent (falsy) string field
ToIn == {Missing, "5511"}
ContentIn == {Missing, "oi"}
MaxAttemptsIn == {0, 1, -1}          \* 0 stands for "not given" (falsy)
\* Destinations in the canonical form of the README: a contact, a group.
CanonicalIn == {"5511@c.us", "1203-1@g.us"}
ChatIdIn == {Missing, "5511@c.us"}
MessageIn == {Missing, "oi"}
MediaUrlIn == {Missing, "http://m/a"}
MimetypeIn == {Missing, "image/png"}
DetectedMime == "image/jpeg"         \* what the fetch detects
ProviderIds == {"MSG1", "MSG2"}              \* ids the platform assigns to a send
QrIn == {"QR1", "QR2"}                       \* codes of the "qr" event
OrchestratorUrlIn == {Missing, "http://orch"}  \* process.env.ORCHESTRATOR_URL
\* inbound platform messages: their type and whether they carry media
MsgIn == {[type |-> "chat", hasMedia |-> FALSE],
          [type |-> "image", hasMedia |-> TRUE],
          [type |-> "e2e_notification", hasMedia |-> FALSE],
          [type |-> "call_log", hasMedia |-> TRUE]}

VARIABLES
  \* WhatsAppClient (the session wrapper)
  client,        \* this.client: 0 = null, n = the n-th handle created
  isReady,       \* this.isReady
  initP,         \* the promise built by initialize(): none/pending/resolved/rejected
  nClients,      \* handles created so far by initialize()
  logoutPc,      \* a caller's logout(): "idle" or "awaiting" (client.logout() in flight)
  \* the platform library's own state
  info,          \* info[h]: handle h has client.info set
  \* MessageQueue
  queue,         \* this.queue, as a sequence of item ids
  items,         \* the item objects, by id (objects are shared by reference)
  nItems,        \* items created so far
  isProcessing,  \* this.isProcessing
  qclient,       \* this.client of the queue: FALSE = null, TRUE = the wrapper
  workers,       \* running executions of process(): position and held messageItem
  spaced,        \* history: a full rateLimitDelay has elapsed since the last successful queued send
  \* main() and the process
  mainPc,        \* "start", "awaitInit", "awaitListen", "serving", "exited"
  alive,         \* the node process is running
  srvClient,     \* main()'s `client`: the handle given to the message handlers
                 \* and to startWebhookServer (0 before)
  orchestratorUrl, \* MessageHandlers.orchestratorUrl (Missing: undefined)
  sigintOn,      \* the SIGINT handler is registered
  sigPc,         \* the SIGINT handler: "idle" or "awaitLogout"
  \* webhook server
  reqs,          \* POST /send-message requests, one record per slot
  \* inbound relay (MessageHandlers)
  events,        \* the "message" events delivered, in delivery order: each
                 \* one's handler run
  nEvents,       \* events delivered so far
  posts,         \* history: the payloads POSTed to the orchestrator, in issue order
  \* history of the last step
  op,            \* the call just made, when its outcome is not visible in the state
  gone           \* the item objects the last step released, with their final fields

sessVars == <<client, isReady, initP, nClients, logoutPc, info>>
queueVars == <<queue, items, nItems, isProcessing, qclient, workers, spaced>>
mainVars == <<mainPc, alive, srvClient, orchestratorUrl, sigintOn, sigPc>>
srvVars == <<reqs>>
relayVars == <<events, nEvents, posts>>
vars == <<client, isReady, initP, nClients, logoutPc, info, queue, items,
          nItems, isProcessing, qclient, workers, spaced, mainPc, alive,
          srvClient, orchestratorUrl, sigintOn, sigPc, reqs, events,
          nEvents, posts, op, gone>>

NoOp == [name |-> "-"]
NoSend == [path |-> "none"]
NoItem == [to |-> Missing]
IdleWorker == [pc |-> "idle", cur |-> 0, delay |-> 0, call |-> NoSend]
\* A request slot nothing was received in. pc: "free", "fetching" (await
\* MessageMedia.fromUrl), "sending" (await sendMessage), "done" (answered).
\* chatId .. mimetype are the body; status, success, messageId the response;
\* sentTo, sentContent, sentCaption, mediaMime the arguments of its
\* sendMessage call;
\* the rest is history: nFetch / nSend / nResp count its fetches, sends and
\* responses, provId is the id the platform gave, fetchFailed / sendFailed
\* the failures, sentReady the session's flag when the send was issued.
FreeReq == [pc |-> "free", chatId |-> Missing, message |-> Missing,
            mediaUrl |-> Missing, mimetype |-> Missing,
            nFetch |-> 0, nSend |-> 0, nResp |-> 0, status |-> 0,
            success |-> FALSE, messageId |-> Missing, provId |-> Missing,
            fetchFailed |-> FALSE, sendFailed |-> FALSE, sentReady |-> FALSE,
            sentTo |-> Missing, sentContent |-> Missing, sentCaption |-> Missing,
            mediaMime |-> Missing]

\* The slot of an event not delivered yet. pc is the handler's position:
\* "none", "contact" (await msg.getContact()), "chat" (await msg.getChat()),
\* "post" (await axios.post), "done" (the handler has returned). type and
\* hasMedia are the message's; the rest is history: nContact / nChat / nPost
\* count its lookups and POSTs, failed names what failed for it.
NoEvent == [pc |-> "none", type |-> Missing, hasMedia |-> FALSE,
            nContact |-> 0, nChat |-> 0, nPost |-> 0, failed |-> "no"]

\* ------------------------------------------------------------------ Init
Init ==
  /\ client = 0
  /\ isReady = FALSE
  /\ initP = "none"
  /\ nClients = 0
  /\ logoutPc = "idle"
  /\ info = [h \in 1..MaxClients |-> FALSE]
  /\ queue = <<>>
  /\ items = [i \in 1..MaxItems |-> NoItem]
  /\ nItems = 0
  /\ isProcessing = FALSE
  /\ qclient = FALSE
  /\ workers = [w \in 1..MaxWorkers |-> IdleWorker]
  /\ spaced = TRUE
  /\ mainPc = "start"
  /\ alive = TRUE
  /\ srvClient = 0
  /\ orchestratorUrl = Missing
  /\ sigintOn = FALSE
  /\ sigPc = "idle"
  /\ reqs = [r \in 1..MaxReqs |-> FreeReq]
  /\ events = [e \in 1..MaxEvents |-> NoEvent]
  /\ nEvents = 0
  /\ posts = <<>>
  /\ op = [name |-> "init"]
  /\ gone = {}

\* ------------------------------------------------- main(), continuations
\* The continuation of `await whatsappClient.initialize()` runs as a
\* microtask of the step that settles the promise, so it is part of the
\* action that settles it.
\* Resolved: getClient() (throwing lands in the catch block, exit(1)), the
\* handlers, startWebhookServer(client, port) up to its await.
MainAfterInit ==
  IF client = 0
    THEN /\ mainPc' = "exited"
         /\ alive' = FALSE
         /\ UNCHANGED <<srvClient, orchestratorUrl, sigintOn, sigPc>>
    ELSE /\ mainPc' = "awaitListen"
         /\ srvClient' = client
         /\ orchestratorUrl' \in OrchestratorUrlIn
         /\ UNCHANGED <<alive, sigintOn, sigPc>>

\* Rejected: the catch block, process.exit(1).
MainInitFailed ==
  /\ mainPc' = "exited"
  /\ alive' = FALSE
  /\ UNCHANGED <<srvClient, orchestratorUrl, sigintOn, sigPc>>

\* main() is suspended on the promise initialize() built.
MainAwaitsInit == mainPc = "awaitInit" /\ initP = "pending"

\* -------------------------------------------------------- WhatsAppClient
\* initialize(): returns at once when a handle exists; otherwise creates the
\* handle, registers the event handlers and returns the pending promise.
InitializeBody ==
  IF client # 0
    THEN UNCHANGED <<client, nClients, initP>>
    ELSE /\ client' = nClients + 1
         /\ nClients' = nClients + 1
         /\ initP' = "pending"

\* initialize() called by some caller of the wrapper.
Initialize ==
  /\ client = 0 => nClients < MaxClients
  /\ InitializeBody
  /\ op' = NoOp
  /\ gone' = {}
  /\ UNCHANGED <<isReady, logoutPc, info>>
  /\ UNCHANGED <<queueVars, mainVars, srvVars, relayVars>>

\* initialize() called by a caller that keeps what it returns: an async
\* function that returns at once yields a promise already resolved, the
\* other path yields the promise that the ready handler resolves.
InitializeCall ==
  /\ client = 0 => nClients < MaxClients
  /\ InitializeBody
  /\ op' = [name |-> "initialize",
            outcome |-> IF client # 0 THEN "resolved" ELSE "pending"]
  /\ gone' = {}
  /\ UNCHANGED <<isReady, logoutPc, info>>
  /\ UNCHANGED <<queueVars, mainVars, srvVars, relayVars>>

\* getClient(): throws when this.client is null.
GetClientThrows == client = 0

\* getClient() called by some caller.
GetClientCall ==
  /\ op' = [name |-> "getClient",
            result |-> IF GetClientThrows THEN "throws" ELSE "handle"]
  /\ gone' = {}
  /\ UNCHANGED <<sessVars, queueVars, mainVars, srvVars, relayVars>>

\* "qr" event: the handler prints the code it was given.
EvQr(qr) ==
  /\ client # 0
  /\ op' = [name |-> "qr", shown |-> qr]
  /\ gone' = {}
  /\ UNCHANGED <<sessVars, queueVars, mainVars, srvVars, relayVars>>

\* The platform events the wrapper only logs ("authenticated") or has no
\* handler for ("auth_failure").
EvOtherIn == {"authenticated", "auth_failure"}

EvOther(ev) ==
  /\ client # 0
  /\ op' = [name |-> ev]
  /\ gone' = {}
  /\ UNCHANGED <<sessVars, queueVars, mainVars, srvVars, relayVars>>

\* "ready" event: the library has set client.info, the handler marks the
\* session ready and resolves the promise.
EvReady ==
  /\ client # 0
  /\ isReady' = TRUE
  /\ info' = [info EXCEPT ![client] = TRUE]
  /\ initP' = IF initP = "pending" THEN "resolved" ELSE initP
  /\ IF MainAwaitsInit THEN MainAfterInit ELSE UNCHANGED mainVars
  /\ op' = NoOp
  /\ gone' = {}
  /\ UNCHANGED <<client, nClients, logoutPc>>
  /\ UNCHANGED <<queueVars, srvVars, relayVars>>

\* "disconnected" event: the handler only clears the flag. Whether the
\* library keeps client.info afterwards is its own business: both outcomes.
EvDisconnected ==
  /\ client # 0
  /\ isReady' = FALSE
  /\ \E keep \in BOOLEAN : info' = [info EXCEPT ![client] = (@ /\ keep)]
  /\ op' = NoOp
  /\ gone' = {}
  /\ UNCHANGED <<client, nClients, initP, logoutPc>>
  /\ UNCHANGED <<queueVars, mainVars, srvVars, relayVars>>

\* "error" event, or client.initialize() rejecting: reject(error).
EvError ==
  /\ client # 0
  /\ initP' = IF initP = "pending" THEN "rejected" ELSE initP
  /\ IF MainAwaitsInit THEN MainInitFailed ELSE UNCHANGED mainVars
  /\ op' = NoOp
  /\ gone' = {}
  /\ UNCHANGED <<client, isReady, nClients, logoutPc, info>>
  /\ UNCHANGED <<queueVars, srvVars, relayVars>>

\* logout() called by some caller: with a handle, awaits client.logout().
LogoutCall ==
  /\ logoutPc = "idle"
  /\ logoutPc' = IF client # 0 THEN "awaiting" ELSE "idle"
  /\ op' = NoOp
  /\ gone' = {}
  /\ UNCHANGED <<client, isReady, initP, nClients, info>>
  /\ UNCHANGED <<queueVars, mainVars, srvVars, relayVars>>

\* client.logout() resolved: the handle is cleared, the flag reset. A
\* handle that main() does not hold either is unreachable from then on, and
\* its info leaves the state with it.
LogoutOk ==
  /\ logoutPc = "awaiting"
  /\ logoutPc' = "idle"
  /\ client' = 0
  /\ isReady' = FALSE
  /\ info' = [h \in 1..MaxClients |->
               IF h = client /\ h # srvClient THEN FALSE ELSE info[h]]
  /\ op' = NoOp
  /\ gone' = {}
  /\ UNCHANGED <<initP, nClients>>
  /\ UNCHANGED <<queueVars, mainVars, srvVars, relayVars>>

\* client.logout() rejected: logout() throws before touching the fields.
LogoutFail ==
  /\ logoutPc = "awaiting"
  /\ logoutPc' = "idle"
  /\ op' = NoOp
  /\ gone' = {}
  /\ UNCHANGED <<client, isReady, initP, nClients, info>>
  /\ UNCHANGED <<queueVars, mainVars, srvVars, relayVars>>

\* ----------------------------------------------------------- MessageQueue
\* The item object built by enqueue(). attempts and maxAttempts are its
\* fields; the rest is history: nSend platform sends issued for it, nOk
\* sends that succeeded, nSentCb / nFailedCb calls of onMessageSent /
\* onMessageFailed for it, unready = an attempt was made for it while the
\* session was not Ready.
NewItem(to, content, maxAttempts) ==
  [to |-> to, content |-> content, attempts |-> 0,
   maxAttempts |-> IF maxAttempts # 0 THEN maxAttempts ELSE DefaultMaxAttempts,
   nSend |-> 0, nOk |-> 0, nSentCb |-> 0, nFailedCb |-> 0, unready |-> FALSE]

\* Array.prototype.shift(): removes the first element, a no-op on [].
Shift(q) == IF q = <<>> THEN q ELSE Tail(q)

\* `${messageItem.to}@c.us`
FormattedNumber(to) == to \o "@c.us"

\* this.client?.isReady, the queue's client being the session wrapper
ClientIsReady == qclient /\ isReady

\* The state one run of process() works on: the queue's fields, the running
\* worker's position (pc, cur = the messageItem it holds, delay = the pause
\* it sleeps in, call = its sendMessage call in flight), whether a full
\* rateLimitDelay has passed since the last successful send, and whether
\* the run ended by an exception.
QState(w) ==
  [queue |-> queue, items |-> items, isProcessing |-> isProcessing,
   pc |-> workers[w].pc, cur |-> workers[w].cur, delay |-> workers[w].delay,
   call |-> workers[w].call, spaced |-> spaced, threw |-> FALSE]

RECURSIVE LoopHead(_, _), Catch(_, _)

\* The while loop from its test up to the next await. k > 0: the k-th
\* onMessageFailed call of this run throws; k = 0: none does.
LoopHead(st, k) ==
  IF st.queue = <<>>
    THEN [st EXCEPT !.isProcessing = FALSE, !.pc = "idle", !.cur = 0,
                    !.delay = 0, !.call = NoSend]
    ELSE LET id == Head(st.queue)
             s1 == [st EXCEPT !.cur = id, !.delay = 0, !.call = NoSend,
                              !.items[id].unready = @ \/ ~isReady]
         IN IF GetClientThrows
              THEN Catch(s1, k)
              ELSE [s1 EXCEPT !.pc = "sending",
                              !.items[id].nSend = @ + 1,
                              !.call = [path |-> "queue",
                                        to |-> FormattedNumber(st.items[id].to),
                                        content |-> st.items[id].content,
                                        ready |-> isReady,
                                        spaced |-> st.spaced]]

\* A catch block whose retry pause does not grow with the attempts.
CatchFlatDelay(st, k) ==
  LET id == st.cur
      s1 == [st EXCEPT !.items[id].attempts = @ + 1, !.call = NoSend]
  IN IF s1.items[id].attempts >= s1.items[id].maxAttempts
       THEN LET s2 == [s1 EXCEPT !.items[id].nFailedCb = @ + 1]
            IN IF k = 1
                 THEN [s2 EXCEPT !.pc = "idle", !.cur = 0, !.threw = TRUE]
                 ELSE LoopHead([s2 EXCEPT !.queue = Shift(@)],
                               IF k = 0 THEN 0 ELSE k - 1)
       ELSE [s1 EXCEPT !.pc = "delay", !.delay = DefaultRateLimitDelay]

\* The catch block for the held messageItem, then the loop again.
Catch(st, k) ==
  LET id == st.cur
      s1 == [st EXCEPT !.items[id].attempts = @ + 1, !.call = NoSend]
  IN IF s1.items[id].attempts >= s1.items[id].maxAttempts
       THEN LET s2 == [s1 EXCEPT !.items[id].nFailedCb = @ + 1]
            IN IF k = 1
                 THEN [s2 EXCEPT !.pc = "idle", !.cur = 0, !.threw = TRUE]
                 ELSE LoopHead([s2 EXCEPT !.queue = Shift(@)],
                               IF k = 0 THEN 0 ELSE k - 1)
       ELSE [s1 EXCEPT !.pc = "delay",
                       !.delay = DefaultRateLimitDelay * s1.items[id].attempts]

\* A process() whose guard forgets the worker-active flag.
ProcessNoFlag(st, k) ==
  IF st.queue = <<>> \/ ~ClientIsReady
    THEN st
    ELSE LoopHead([st EXCEPT !.isProcessing = TRUE], k)

\* process(): the guard, then the flag and the loop.
Process(st, k) ==
  IF st.isProcessing \/ st.queue = <<>> \/ ~ClientIsReady
    THEN st
    ELSE LoopHead([st EXCEPT !.isProcessing = TRUE], k)

\* The continuation of `await sendMessage(...)` when it resolved:
\* onMessageSent (which may throw into the catch block), shift, delay.
AfterSendOk(st, sentThrows, k) ==
  LET id == st.cur
      s1 == [st EXCEPT !.items[id].nOk = @ + 1, !.items[id].nSentCb = @ + 1,
                       !.call = NoSend, !.spaced = FALSE]
  IN IF sentThrows
       THEN Catch(s1, k)
       ELSE [s1 EXCEPT !.queue = Shift(@), !.pc = "delay",
                       !.delay = DefaultRateLimitDelay]

\* The worker slot a new execution of process() runs in.
FreeSlot == CHOOSE w \in 1..MaxWorkers :
              /\ workers[w].pc = "idle"
              /\ \A v \in 1..MaxWorkers : workers[v].pc = "idle" => w <= v

HasFreeSlot == \E w \in 1..MaxWorkers : workers[w].pc = "idle"

Range(q) == {q[n] : n \in 1..Len(q)}

\* The item objects still referenced: in the array, or held by a worker.
Live(q, ws) == Range(q) \cup {ws[w].cur : w \in 1..MaxWorkers}

\* Drops the objects nothing references any more (garbage); gone keeps, for
\* one step, the ones this step released.
Collect(q, its, ws) ==
  /\ items' = [i \in 1..MaxItems |-> IF i \in Live(q, ws) THEN its[i] ELSE NoItem]
  /\ gone' = {[id |-> i, it |-> its[i]] :
                i \in {j \in 1..MaxItems : its[j] # NoItem /\ j \notin Live(q, ws)}}

\* Writes the result of a run back to the queue's fields. An exception that
\* leaves process() is an unhandled rejection: the runtime either goes on
\* or terminates the process.
Commit(w, st) ==
  LET ws == [workers EXCEPT ![w] = [pc |-> st.pc, cur |-> st.cur,
                                    delay |-> st.delay, call |-> st.call]]
  IN /\ queue' = st.queue
     /\ isProcessing' = st.isProcessing
     /\ workers' = ws
     /\ spaced' = st.spaced
     /\ Collect(st.queue, st.items, ws)
     /\ IF st.threw THEN alive' \in BOOLEAN ELSE alive' = alive

\* Which onMessageFailed call of a run throws (0: none). With a handle a run
\* reaches an await after one such call at most; without one, getClient()
\* throws for every item and a run can call it once for each item queued.
Throws(q) == 0..(IF GetClientThrows THEN Len(q) + 1 ELSE 1)

\* setClient(client)
SetClient ==
  /\ ~qclient
  /\ qclient' = TRUE
  /\ op' = NoOp
  /\ gone' = {}
  /\ UNCHANGED <<queue, items, nItems, isProcessing, workers, spaced>>
  /\ UNCHANGED <<sessVars, mainVars, srvVars, relayVars>>

\* A validation that forgets the content.
ValidatesToOnly(to, content) == to # Missing

\* enqueue(): the test `!message.to || !message.content` is false.
Validates(to, content) == ~(to = Missing \/ content = Missing)

\* enqueue(message): throws on a missing field; otherwise builds the item,
\* pushes it and starts process() when no worker is flagged.
Enqueue(to, content, maxAttempts) ==
  /\ HasFreeSlot
  /\ IF ~Validates(to, content)
       THEN /\ op' = [name |-> "enqueue", result |-> "error",
                      missing |-> (to = Missing \/ content = Missing)]
            /\ gone' = {}
            /\ UNCHANGED <<queue, items, nItems, isProcessing, workers, spaced,
                           alive>>
       ELSE /\ nItems < MaxItems
            /\ LET id == nItems + 1
                   w == FreeSlot
                   s0 == QState(w)
                   s1 == [s0 EXCEPT !.items[id] = NewItem(to, content, maxAttempts),
                                    !.queue = Append(@, id)]
               IN \E k \in Throws(s1.queue) :
                    Commit(w, IF ~s1.isProcessing THEN Process(s1, k) ELSE s1)
            /\ nItems' = nItems + 1
            /\ op' = [name |-> "enqueue", result |-> "ok",
                      missing |-> (to = Missing \/ content = Missing)]
  /\ UNCHANGED qclient
  /\ UNCHANGED <<sessVars, mainPc, srvClient, orchestratorUrl, sigintOn, sigPc, srvVars, relayVars>>

\* process() called directly.
ProcessCall ==
  /\ HasFreeSlot
  /\ LET w == FreeSlot
     IN \E k \in Throws(queue) : Commit(w, Process(QState(w), k))
  /\ op' = NoOp
  /\ UNCHANGED <<nItems, qclient>>
  /\ UNCHANGED <<sessVars, mainPc, srvClient, orchestratorUrl, sigintOn, sigPc, srvVars, relayVars>>

\* sendMessage resolved for worker w.
SendOk(w) ==
  /\ workers[w].pc = "sending"
  /\ \E sentThrows \in BOOLEAN, k \in Throws(queue) :
       /\ sentThrows \/ k = 0
       /\ Commit(w, AfterSendOk(QState(w), sentThrows, k))
  /\ op' = NoOp
  /\ UNCHANGED <<nItems, qclient>>
  /\ UNCHANGED <<sessVars, mainPc, srvClient, orchestratorUrl, sigintOn, sigPc, srvVars, relayVars>>

\* sendMessage rejected for worker w.
SendFail(w) ==
  /\ workers[w].pc = "sending"
  /\ \E k \in Throws(queue) : Commit(w, Catch(QState(w), k))
  /\ op' = NoOp
  /\ UNCHANGED <<nItems, qclient>>
  /\ UNCHANGED <<sessVars, mainPc, srvClient, orchestratorUrl, sigintOn, sigPc, srvVars, relayVars>>

\* The timer of _delay(ms) fired for worker w.
DelayDone(w) ==
  /\ workers[w].pc = "delay"
  /\ \E k \in Throws(queue) :
       Commit(w, LoopHead([QState(w) EXCEPT
                             !.spaced = @ \/ workers[w].delay >= DefaultRateLimitDelay],
                          k))
  /\ op' = NoOp
  /\ UNCHANGED <<nItems, qclient>>
  /\ UNCHANGED <<sessVars, mainPc, srvClient, orchestratorUrl, sigintOn, sigPc, srvVars, relayVars>>

\* clear()
Clear ==
  /\ queue' = <<>>
  /\ Collect(<<>>, items, workers)
  /\ op' = NoOp
  /\ UNCHANGED <<nItems, isProcessing, qclient, workers, spaced>>
  /\ UNCHANGED <<sessVars, mainVars, srvVars, relayVars>>

\* ---------------------------------------------------------- webhook server
\* A validation that forgets the message.
BodyValidChatOnly(chatId, message) == chatId # Missing

\* POST /send-message: the test `!chatId || !message` is false.
BodyValid(chatId, message) == ~(chatId = Missing \/ message = Missing)

\* The destination the direct path sends to: the chatId as given.
DirectDestination(chatId) == chatId

\* whatsappClient.sendMessage(chatId, media || message, {caption: ...})
IssueSend(rq, hasMedia) ==
  [rq EXCEPT !.pc = "sending", !.nSend = @ + 1, !.sentReady = isReady,
             !.sentTo = DirectDestination(rq.chatId),
             !.sentContent = IF hasMedia THEN "media" ELSE rq.message,
             !.sentCaption = IF hasMedia THEN rq.message ELSE Missing]

\* The handler up to its first await (or to its 400 response).
Receive(chatId, message, mediaUrl, mimetype) ==
  LET rq == [FreeReq EXCEPT !.chatId = chatId, !.message = message,
                            !.mediaUrl = mediaUrl, !.mimetype = mimetype]
  IN IF ~BodyValid(chatId, message)
       THEN [rq EXCEPT !.pc = "done", !.nResp = @ + 1, !.status = 400,
                       !.success = FALSE]
       ELSE IF mediaUrl # Missing
              THEN [rq EXCEPT !.pc = "fetching", !.nFetch = @ + 1]
              ELSE IssueSend(rq, FALSE)

\* A handler that sends the attachment with the type the fetch detected.
AfterFetchOkDetected(rq) ==
  IssueSend([rq EXCEPT !.mediaMime = DetectedMime], TRUE)

\* After MessageMedia.fromUrl resolved: the mimetype override, then the send.
AfterFetchOk(rq) ==
  IssueSend([rq EXCEPT !.mediaMime = IF rq.mimetype # Missing
                                       THEN rq.mimetype ELSE DetectedMime],
            TRUE)

\* The catch block: 500 {success: false, error}.
Respond500(rq) ==
  [rq EXCEPT !.pc = "done", !.nResp = @ + 1, !.status = 500, !.success = FALSE]

\* 200 {success: true, messageId: msg.id.id}
Respond200(rq, pid) ==
  [rq EXCEPT !.pc = "done", !.nResp = @ + 1, !.status = 200, !.success = TRUE,
             !.messageId = pid]

ServerUnchanged ==
  /\ op' = NoOp
  /\ gone' = {}
  /\ UNCHANGED <<sessVars, queueVars, mainVars, relayVars>>

\* A POST /send-message request arrives in slot r.
PostSendMessage(r) ==
  /\ mainPc = "serving"
  /\ reqs[r].pc \in {"free", "done"}
  /\ \E chatId \in ChatIdIn, message \in MessageIn,
        mediaUrl \in MediaUrlIn, mimetype \in MimetypeIn :
       reqs' = [reqs EXCEPT ![r] = Receive(chatId, message, mediaUrl, mimetype)]
  /\ ServerUnchanged

\* MessageMedia.fromUrl resolved for request r.
FetchOk(r) ==
  /\ reqs[r].pc = "fetching"
  /\ reqs' = [reqs EXCEPT ![r] = AfterFetchOk(@)]
  /\ ServerUnchanged

\* A handler that swallows the fetch failure and sends the text alone.
FetchFailStillSends(r) ==
  /\ reqs[r].pc = "fetching"
  /\ reqs' = [reqs EXCEPT ![r] = IssueSend([@ EXCEPT !.fetchFailed = TRUE], FALSE)]
  /\ ServerUnchanged

\* MessageMedia.fromUrl rejected for request r.
FetchFail(r) ==
  /\ reqs[r].pc = "fetching"
  /\ reqs' = [reqs EXCEPT ![r] = Respond500([@ EXCEPT !.fetchFailed = TRUE])]
  /\ ServerUnchanged

\* sendMessage resolved for request r with a message carrying the id pid.
DirectSendOk(r) ==
  /\ reqs[r].pc = "sending"
  /\ \E pid \in ProviderIds :
       reqs' = [reqs EXCEPT ![r] = Respond200([@ EXCEPT !.provId = pid], pid)]
  /\ ServerUnchanged

\* sendMessage rejected for request r.
DirectSendFail(r) ==
  /\ reqs[r].pc = "sending"
  /\ reqs' = [reqs EXCEPT ![r] = Respond500([@ EXCEPT !.sendFailed = TRUE])]
  /\ ServerUnchanged

\* GET /health: 200 {status: "ok", isReady: whatsappClient.info != null}
HealthBody == [name |-> "health", status |-> 200, text |-> "ok",
               isReady |-> info[srvClient]]

Health ==
  /\ mainPc = "serving"
  /\ op' = HealthBody
  /\ gone' = {}
  /\ UNCHANGED <<sessVars, queueVars, mainVars, srvVars, relayVars>>

\* ------------------------------------------------------------------ main
\* main() up to `await whatsappClient.initialize()`; when initialize()
\* returned at once, on through its continuation.
MainStart ==
  /\ mainPc = "start"
  /\ client = 0 => nClients < MaxClients
  /\ InitializeBody
  /\ IF client # 0
       THEN MainAfterInit
       ELSE /\ mainPc' = "awaitInit"
            /\ UNCHANGED <<alive, srvClient, orchestratorUrl, sigintOn, sigPc>>
  /\ op' = NoOp
  /\ gone' = {}
  /\ UNCHANGED <<isReady, logoutPc, info>>
  /\ UNCHANGED <<queueVars, srvVars, relayVars>>

\* The server listens: main() goes on to register the SIGINT handler.
MainListening ==
  /\ mainPc = "awaitListen"
  /\ mainPc' = "serving"
  /\ sigintOn' = TRUE
  /\ op' = NoOp
  /\ gone' = {}
  /\ UNCHANGED <<alive, srvClient, orchestratorUrl, sigPc>>
  /\ UNCHANGED <<sessVars, queueVars, srvVars, relayVars>>

\* SIGINT. Without the handler the process is terminated. With it:
\* `await whatsappClient.logout()`, which returns at once without a handle
\* (then process.exit(0)) and otherwise awaits client.logout().
Sigint ==
  /\ sigPc = "idle"
  /\ IF sigintOn /\ client # 0
       THEN /\ sigPc' = "awaitLogout"
            /\ UNCHANGED <<alive, mainPc>>
       ELSE /\ alive' = FALSE
            /\ mainPc' = "exited"
            /\ UNCHANGED sigPc
  /\ op' = [name |-> "sigint"]
  /\ gone' = {}
  /\ UNCHANGED <<srvClient, orchestratorUrl, sigintOn>>
  /\ UNCHANGED <<sessVars, queueVars, srvVars, relayVars>>

\* client.logout() resolved in the SIGINT handler: the fields are cleared,
\* then process.exit(0).
SigLogoutOk ==
  /\ sigPc = "awaitLogout"
  /\ sigPc' = "idle"
  /\ client' = 0
  /\ isReady' = FALSE
  /\ alive' = FALSE
  /\ mainPc' = "exited"
  /\ op' = NoOp
  /\ gone' = {}
  /\ UNCHANGED <<initP, nClients, logoutPc, info, srvClient, orchestratorUrl, sigintOn>>
  /\ UNCHANGED <<queueVars, srvVars, relayVars>>

\* client.logout() rejected in the SIGINT handler: logout() throws, the
\* handler's promise rejects and process.exit(0) is not reached; the
\* unhandled rejection either terminates the process or does not.
SigLogoutFail ==
  /\ sigPc = "awaitLogout"
  /\ sigPc' = "idle"
  /\ alive' \in BOOLEAN
  /\ mainPc' = IF alive' THEN mainPc ELSE "exited"
  /\ op' = NoOp
  /\ gone' = {}
  /\ UNCHANGED <<srvClient, orchestratorUrl, sigintOn>>
  /\ UNCHANGED <<sessVars, queueVars, srvVars, relayVars>>

\* -------------------------------------------------------- MessageHandlers
\* The type test at the head of the "message" handler.
IsNotificationE2eOnly(type) == type = "e2e_notification"

IsNotification(type) == type = "e2e_notification" \/ type = "call_log"

\* The payload built from the message of event e.
Payload(e, ev) == [messageId |-> e, type |-> ev.type, media |-> ev.hasMedia]

RelayUnchanged ==
  /\ op' = NoOp
  /\ gone' = {}
  /\ UNCHANGED <<sessVars, queueVars, mainVars, srvVars>>

\* The platform delivers a "message" event to the handler setup() put on
\* the handle: a notification returns at once, anything else starts the
\* contact lookup.
EvMessage(m) ==
  /\ srvClient # 0
  /\ nEvents < MaxEvents
  /\ nEvents' = nEvents + 1
  /\ events' = [events EXCEPT ![nEvents + 1] =
        IF IsNotification(m.type)
          THEN [@ EXCEPT !.pc = "done", !.type = m.type, !.hasMedia = m.hasMedia]
          ELSE [@ EXCEPT !.pc = "contact", !.type = m.type,
                         !.hasMedia = m.hasMedia, !.nContact = 1]]
  /\ UNCHANGED posts
  /\ RelayUnchanged

\* msg.getContact() resolved: on to msg.getChat().
ContactOk(e) ==
  /\ events[e].pc = "contact"
  /\ events' = [events EXCEPT ![e] = [@ EXCEPT !.pc = "chat", !.nChat = 1]]
  /\ UNCHANGED <<nEvents, posts>>
  /\ RelayUnchanged

\* A lookup rejected: the handler's catch block logs it and returns.
LookupFail(e) ==
  /\ events[e].pc \in {"contact", "chat"}
  /\ events' = [events EXCEPT ![e] = [@ EXCEPT !.pc = "done", !.failed = "lookup"]]
  /\ UNCHANGED <<nEvents, posts>>
  /\ RelayUnchanged

\* msg.getChat() resolved: the payload is built and handed to
\* _forwardToOrchestrator, which returns at once without a URL and
\* otherwise issues the POST.
ChatOk(e) ==
  /\ events[e].pc = "chat"
  /\ IF orchestratorUrl = Missing
       THEN /\ events' = [events EXCEPT ![e] = [@ EXCEPT !.pc = "done"]]
            /\ UNCHANGED posts
       ELSE /\ events' = [events EXCEPT ![e] = [@ EXCEPT !.pc = "post", !.nPost = @ + 1]]
            /\ posts' = Append(posts, Payload(e, events[e]))
  /\ UNCHANGED nEvents
  /\ RelayUnchanged

\* axios.post resolved (a 2xx answer).
PostOk(e) ==
  /\ events[e].pc = "post"
  /\ events' = [events EXCEPT ![e] = [@ EXCEPT !.pc = "done"]]
  /\ UNCHANGED <<nEvents, posts>>
  /\ RelayUnchanged

\* A forwarder that issues the POST again when it fails.
PostFailRetries(e) ==
  /\ events[e].pc = "post"
  /\ events' = [events EXCEPT ![e] = [@ EXCEPT !.nPost = @ + 1, !.failed = "post"]]
  /\ posts' = Append(posts, Payload(e, events[e]))
  /\ UNCHANGED nEvents
  /\ RelayUnchanged

\* axios.post rejected (network error, non-2xx, timeout): logged inside
\* _forwardToOrchestrator, which returns normally.
PostFail(e) ==
  /\ events[e].pc = "post"
  /\ events' = [events EXCEPT ![e] = [@ EXCEPT !.pc = "done", !.failed = "post"]]
  /\ UNCHANGED <<nEvents, posts>>
  /\ RelayUnchanged

QueueNext ==
  \/ SetClient
  \/ \E to \in ToIn, content \in ContentIn, maxAttempts \in MaxAttemptsIn :
       Enqueue(to, content, maxAttempts)
  \/ ProcessCall
  \/ \E w \in 1..MaxWorkers : SendOk(w)
  \/ \E w \in 1..MaxWorkers : SendFail(w)
  \/ \E w \in 1..MaxWorkers : DelayDone(w)
  \/ Clear

SessionNext ==
  \/ Initialize
  \/ EvReady
  \/ EvDisconnected
  \/ LogoutCall
  \/ LogoutOk
  \/ LogoutFail

Next == alive /\ (QueueNext \/ SessionNext)

Spec == Init /\ [][Next]_vars

ServerNext ==
  \/ \E r \in 1..MaxReqs : PostSendMessage(r)
  \/ \E r \in 1..MaxReqs : FetchOk(r)
  \/ \E r \in 1..MaxReqs : FetchFail(r)
  \/ \E r \in 1..MaxReqs : DirectSendOk(r)
  \/ \E r \in 1..MaxReqs : DirectSendFail(r)
  \/ Health

MainNext ==
  \/ MainStart
  \/ MainListening
  \/ Sigint
  \/ SigLogoutOk
  \/ SigLogoutFail

EventNext ==
  \/ EvReady
  \/ EvDisconnected
  \/ EvError
  \/ \E qr \in QrIn : EvQr(qr)
  \/ \E ev \in EvOtherIn : EvOther(ev)

\* The service as main() runs it: the session, the webhook server, signals.
SrvNext == alive /\ (MainNext \/ ServerNext \/ EventNext)

SrvSpec == Init /\ [][SrvNext]_vars

RelayActs ==
  \/ \E m \in MsgIn : EvMessage(m)
  \/ \E e \in 1..MaxEvents : ContactOk(e)
  \/ \E e \in 1..MaxEvents : LookupFail(e)
  \/ \E e \in 1..MaxEvents : ChatOk(e)
  \/ \E e \in 1..MaxEvents : PostOk(e)
  \/ \E e \in 1..MaxEvents : PostFail(e)

\* The queue when every send call eventually returns and every timer fires.
QLiveSpec ==
  /\ Spec
  /\ WF_vars(\E w \in 1..MaxWorkers : SendOk(w) \/ SendFail(w))
  /\ WF_vars(\E w \in 1..MaxWorkers : DelayDone(w))

\* The queue fed with canonical chat ids as destinations.
DestActs ==
  \/ SetClient
  \/ Initialize
  \/ EvReady
  \/ \E to \in CanonicalIn, content \in ContentIn, maxAttempts \in MaxAttemptsIn :
       Enqueue(to, content, maxAttempts)
  \/ \E w \in 1..MaxWorkers : SendOk(w)
  \/ \E w \in 1..MaxWorkers : SendFail(w)
  \/ \E w \in 1..MaxWorkers : DelayDone(w)

DestNext == alive /\ DestActs

DestSpec == Init /\ [][DestNext]_vars

\* The session wrapper under any caller of its API and any platform events.
SessNext ==
  alive /\ (\/ InitializeCall
            \/ GetClientCall
            \/ LogoutCall
            \/ LogoutOk
            \/ LogoutFail
            \/ EventNext)

SessSpec == Init /\ [][SessNext]_vars

\* The service under the scheduling the runtime guarantees: main() runs and
\* the server comes to listen. Platform events, signals and requests are the
\* environment's and may never come.
LiveSpec == SrvSpec /\ WF_vars(MainStart) /\ WF_vars(MainListening)

\* The inbound relay as main() sets it up: start-up, then message events.
RelayNext == alive /\ (MainStart \/ EvReady \/ MainListening \/ RelayActs)

RelaySpec == Init /\ [][RelayNext]_vars

\* ------------------------------------------------------------ properties
\* The item objects known in a state: the referenced ones and the ones the
\* last step released.
Known ==
  {[id |-> i, it |-> items[i], live |-> TRUE] :
     i \in {j \in 1..MaxItems : items[j] # NoItem}}
  \cup {[id |-> g.id, it |-> g.it, live |-> FALSE] : g \in gone}

InFlight(i) == \E w \in 1..MaxWorkers : workers[w].pc = "sending" /\ workers[w].cur = i
InQueue(i) == i \in Range(queue)
Active == {w \in 1..MaxWorkers : workers[w].pc # "idle"}

\* C1 (retry bound): an item with a positive maxAttempts, attempted only
\* while the session was Ready and whose sends all failed, never sees
\* onMessageSent, is sent at most maxAttempts times, sees onMessageFailed at
\* most once and only after maxAttempts sends, and once its last send has
\* failed it has seen onMessageFailed and is out of the queue.
C1_RetryBound ==
  \A x \in Known :
    (x.it.maxAttempts >= 1 /\ x.it.nOk = 0 /\ ~x.it.unready) =>
      /\ x.it.nSentCb = 0
      /\ x.it.nSend <= x.it.maxAttempts
      /\ x.it.nFailedCb <= 1
      /\ x.it.nFailedCb = 1 => x.it.nSend = x.it.maxAttempts
      /\ (x.it.nSend = x.it.maxAttempts /\ ~(x.live /\ InFlight(x.id))) =>
           (x.it.nFailedCb = 1 /\ ~(x.live /\ InQueue(x.id)))

\* C2 (FIFO dispatch with spacing): every queued send was issued after a
\* full rateLimitDelay since the last successful queued send; an item
\* attempted only while Ready and none of whose sends failed is sent once;
\* the item in flight is older than every item waiting in the queue.
C2_FifoSpacing ==
  /\ \A w \in 1..MaxWorkers : workers[w].call # NoSend => workers[w].call.spaced
  /\ \A x \in Known :
       (~x.it.unready
        /\ x.it.nSend = x.it.nOk + (IF x.live /\ InFlight(x.id) THEN 1 ELSE 0))
         => x.it.nSend <= 1
  /\ \A w \in 1..MaxWorkers : workers[w].pc = "sending" =>
       \A j \in Range(queue) : workers[w].cur <= j
  /\ \A m, n \in 1..Len(queue) : m < n => queue[m] < queue[n]

\* C3 (sends only when Ready): every platform sendMessage call, of the
\* drain worker and of POST /send-message, was issued while the session was
\* Ready.
C3_SendOnlyWhenReady ==
  /\ \A w \in 1..MaxWorkers : workers[w].call # NoSend => workers[w].call.ready
  /\ \A r \in 1..MaxReqs : reqs[r].pc = "sending" => reqs[r].sentReady

\* C4 (stall and resume): a step taken while the session is not Ready
\* charges no attempt to any item, and whenever the session is Ready with
\* the queue's client set and items waiting, a drain worker is running.
C4_StallAndResume ==
  [][/\ ~isReady =>
          /\ \A i \in 1..MaxItems :
               (items[i] # NoItem /\ items'[i] # NoItem) =>
                 items'[i].attempts = items[i].attempts
          /\ \A g \in gone' : g.it.attempts = items[g.id].attempts
     /\ (alive' /\ isReady' /\ qclient' /\ queue' # <<>>) => Active' # {}
    ]_vars

\* C5 (single drain worker): at most one execution of the drain loop is
\* active, and at most one queued send is in flight.
C5_SingleWorker ==
  /\ Cardinality(Active) <= 1
  /\ Cardinality({w \in 1..MaxWorkers : workers[w].call # NoSend}) <= 1

\* An enqueue() has just been accepted while the worker sleeps in a delay,
\* so the call arrived while the worker was active.
C5_Witness ==
  /\ op = [name |-> "enqueue", result |-> "ok", missing |-> FALSE]
  /\ \E w \in 1..MaxWorkers : workers[w].pc = "delay"
  /\ isProcessing
  /\ Len(queue) >= 2

\* C6 (attempts <= maxAttempts): holds of every item object.
C6_AttemptsBound ==
  \A x \in Known : x.it.attempts <= x.it.maxAttempts

\* C7 (enqueue validation): an enqueue() of a message with a missing field
\* fails and changes nothing of the queue or its workers; an enqueue() of a
\* complete message succeeds and appends the new item at the tail,
\* unattempted, with the given fields.
C7_EnqueueValidation ==
  [][op'.name = "enqueue" =>
       /\ op'.missing =>
            /\ op'.result = "error"
            /\ UNCHANGED <<queue, items, nItems, isProcessing, workers>>
       /\ ~op'.missing =>
            /\ op'.result = "ok"
            /\ nItems' = nItems + 1
            /\ queue' = Append(queue, nItems')
            /\ items'[nItems'].to \in ToIn \ {Missing}
            /\ items'[nItems'].content \in ContentIn \ {Missing}
            /\ items'[nItems'].attempts = 0
    ]_vars

\* A message without content has just been refused while items wait.
C7_Witness ==
  /\ op = [name |-> "enqueue", result |-> "error", missing |-> TRUE]
  /\ Len(queue) >= 1
  /\ ~isProcessing

\* C8 (400 on a missing field): a POST /send-message without chatId or
\* without message has been answered 400 with success false, exactly once,
\* and has made no media fetch and no sendMessage call.
C8_Invalid400 ==
  \A r \in 1..MaxReqs :
    (reqs[r].pc # "free" /\ (reqs[r].chatId = Missing \/ reqs[r].message = Missing)) =>
      /\ reqs[r].pc = "done"
      /\ reqs[r].status = 400
      /\ ~reqs[r].success
      /\ reqs[r].nResp = 1
      /\ reqs[r].nFetch = 0
      /\ reqs[r].nSend = 0

\* A request with a mediaUrl but no message has been answered.
C8_Witness ==
  \E r \in 1..MaxReqs :
    /\ reqs[r].pc = "done"
    /\ reqs[r].chatId # Missing
    /\ reqs[r].message = Missing
    /\ reqs[r].mediaUrl # Missing

\* C9 (one response, after the platform operation): a valid request has no
\* response while its fetch or send is in flight and exactly one once it is
\* done: 200 with success and the id the platform returned after a send
\* that succeeded, 500 with success false after a failed fetch or send; a
\* failed fetch is followed by no send.
C9_OneResponse ==
  \A r \in 1..MaxReqs :
    (reqs[r].pc # "free" /\ reqs[r].chatId # Missing /\ reqs[r].message # Missing) =>
      /\ reqs[r].pc \in {"fetching", "sending"} =>
           reqs[r].nResp = 0 /\ reqs[r].status = 0
      /\ reqs[r].pc = "done" =>
           /\ reqs[r].nResp = 1
           /\ \/ /\ reqs[r].status = 200
                 /\ reqs[r].success
                 /\ reqs[r].nSend = 1
                 /\ reqs[r].provId \in ProviderIds
                 /\ reqs[r].messageId = reqs[r].provId
                 /\ ~reqs[r].fetchFailed /\ ~reqs[r].sendFailed
              \/ /\ reqs[r].status = 500
                 /\ ~reqs[r].success
                 /\ reqs[r].fetchFailed \/ reqs[r].sendFailed
                 /\ reqs[r].provId = Missing
      /\ reqs[r].fetchFailed => reqs[r].nSend = 0
      /\ reqs[r].nSend <= 1 /\ reqs[r].nFetch <= 1

\* A valid request with media has been answered 200 after its fetch and its
\* send.
C9_Witness ==
  \E r \in 1..MaxReqs :
    /\ reqs[r].pc = "done"
    /\ reqs[r].status = 200
    /\ reqs[r].nFetch = 1
    /\ reqs[r].nSend = 1

\* C10 (health): GET /health answers 200 {status: "ok", isReady} with
\* isReady equal to the session's ready flag, and changes nothing.
C10_Health ==
  [][op'.name = "health" =>
       /\ op'.status = 200
       /\ op'.text = "ok"
       /\ op'.isReady = isReady
       /\ UNCHANGED <<sessVars, queueVars, mainVars, srvVars>>
    ]_vars

\* The POSTs issued for event e.
PostsOf(e) == {n \in 1..Len(posts) : posts[n].messageId = e}

\* C11 (inbound ordering): the POSTs to the orchestrator are issued in the
\* order in which the platform delivered their events.
C11_InboundOrder ==
  \A m, n \in 1..Len(posts) : m < n => posts[m].messageId < posts[n].messageId

\* C12 (inbound at-most-once): every delivered event has caused at most one
\* POST; an event whose POST failed is finished, with that one POST and no
\* other, and the process is still running; an event delivered later is
\* handled whatever became of the earlier ones.
C12_AtMostOnce ==
  \A e \in 1..MaxEvents :
    /\ events[e].nPost <= 1
    /\ Cardinality(PostsOf(e)) = events[e].nPost
    /\ events[e].failed = "post" =>
         /\ events[e].pc = "done"
         /\ events[e].nPost = 1
         /\ alive
    /\ (events[e].pc = "done" /\ events[e].failed = "no"
        /\ ~IsNotification(events[e].type) /\ orchestratorUrl # Missing) =>
         events[e].nPost = 1

\* The POST of the first event failed, and the second event, delivered
\* after that failure or before, has been forwarded.
C12_Witness ==
  /\ MaxEvents >= 2
  /\ events[1].pc = "done"
  /\ events[1].failed = "post"
  /\ events[2].pc = "done"
  /\ events[2].failed = "no"
  /\ Len(posts) = 2
  /\ posts[1].messageId = 1
  /\ posts[2].messageId = 2

\* C13 (notifications are not relayed): a delivered event of type
\* e2e_notification or call_log is finished at once, has made no contact or
\* chat lookup and no POST.
C13_NotificationsIgnored ==
  \A e \in 1..MaxEvents :
    (events[e].pc # "none" /\ events[e].type \in {"e2e_notification", "call_log"}) =>
      /\ events[e].pc = "done"
      /\ events[e].nContact = 0
      /\ events[e].nChat = 0
      /\ events[e].nPost = 0
      /\ PostsOf(e) = {}

\* A call_log carrying media was delivered with an orchestrator URL set,
\* after an ordinary message that was forwarded.
C13_Witness ==
  /\ MaxEvents >= 2
  /\ orchestratorUrl # Missing
  /\ events[1].nPost = 1
  /\ events[2].pc = "done"
  /\ events[2].type = "call_log"
  /\ events[2].hasMedia

\* C14 (initialize() is idempotent and resolves only on Ready): an
\* initialize() call made while a handle exists creates no handle, the
\* outcome of an initialize() call is resolved only with the session Ready,
\* and the promise of the first call is resolved only by a step that leaves
\* the session Ready.
C14_InitializeIdempotent ==
  [][/\ op'.name = "initialize" =>
          /\ client # 0 => (nClients' = nClients /\ client' = client)
          /\ op'.outcome = "resolved" => isReady'
     /\ (initP = "pending" /\ initP' = "resolved") => isReady'
    ]_vars

\* C15 (getClient() only when Ready): a getClient() call returns the handle
\* when the session is Ready and throws in every other state.
C15_GetClientOnlyReady ==
  [][op'.name = "getClient" =>
       /\ isReady => (op'.result = "handle" /\ client # 0)
       /\ ~isReady => op'.result = "throws"
    ]_vars

\* C16 (initialization failure): an authentication failure reported while
\* the promise of initialize() is pending rejects it, and when that promise
\* is rejected under main() the process exits, with no handler set up and
\* no server started.
C16_InitFailure ==
  [][/\ (op'.name = "auth_failure" /\ initP = "pending") => initP' = "rejected"
     /\ (initP = "pending" /\ initP' = "rejected" /\ mainPc = "awaitInit") =>
          (mainPc' = "exited" /\ ~alive' /\ srvClient' = 0 /\ ~sigintOn')
    ]_vars

\* C17 (logout() is an idempotent teardown): when a logout() call that
\* reached the platform completes, the handle is cleared and the session is
\* not ready; a logout() call made without a handle makes no platform call
\* and changes nothing.
C17_LogoutTeardown ==
  [][/\ (logoutPc = "awaiting" /\ logoutPc' = "idle") => (client' = 0 /\ ~isReady')
     /\ (client = 0 /\ logoutPc = "idle") => logoutPc' = "idle"
    ]_vars

\* C18 (Disconnected is terminal): a session that was Ready and is no
\* longer, its handle still in place, does not become Ready again on that
\* handle.
C18_DisconnectedTerminal ==
  [][(client # 0 /\ initP = "resolved" /\ ~isReady /\ client' = client) => ~isReady'
    ]_vars

\* C19 (automatic reconnection): a running service whose session was
\* Ready and got disconnected eventually has a Ready session again, unless
\* the process is ended first.
C19_AutoReconnect ==
  (alive /\ client # 0 /\ initP = "resolved" /\ ~isReady) ~> (isReady \/ ~alive)

\* C20 (graceful shutdown): a SIGINT that arrives once main() is running
\* starts a logout attempt and does not end the process by itself, and when
\* that attempt finishes, successfully or not, the process exits.
C20_GracefulShutdown ==
  [][/\ (op'.name = "sigint" /\ mainPc # "start") =>
          (alive' /\ sigPc' = "awaitLogout")
     /\ (sigPc = "awaitLogout" /\ sigPc' = "idle") => ~alive'
    ]_vars

\* C21 (direct send with media): a request with a mediaUrl makes its fetch
\* before its send, and its send carries the attachment as content, the
\* message text as caption and the supplied mimetype when one was given
\* (the detected one otherwise); a request without a mediaUrl makes no
\* fetch and sends the message text as content, with no caption. Either
\* way the send goes to the chatId given.
C21_MediaSend ==
  \A r \in 1..MaxReqs :
    /\ reqs[r].pc = "fetching" => (reqs[r].nSend = 0 /\ reqs[r].mediaUrl # Missing)
    /\ reqs[r].nSend >= 1 =>
         /\ reqs[r].sentTo = reqs[r].chatId
         /\ reqs[r].mediaUrl # Missing =>
              /\ reqs[r].nFetch = 1
              /\ ~reqs[r].fetchFailed
              /\ reqs[r].sentContent = "media"
              /\ reqs[r].sentCaption = reqs[r].message
              /\ reqs[r].mimetype # Missing => reqs[r].mediaMime = reqs[r].mimetype
              /\ reqs[r].mimetype = Missing => reqs[r].mediaMime = DetectedMime
         /\ reqs[r].mediaUrl = Missing =>
              /\ reqs[r].nFetch = 0
              /\ reqs[r].sentContent = reqs[r].message
              /\ reqs[r].sentCaption = Missing
              /\ reqs[r].mediaMime = Missing

\* A send is in flight for a request whose mimetype differs from the one
\* the fetch detected.
C21_Witness ==
  \E r \in 1..MaxReqs :
    /\ reqs[r].pc = "sending"
    /\ reqs[r].mediaUrl # Missing
    /\ reqs[r].mimetype # Missing
    /\ reqs[r].mimetype # DetectedMime
    /\ reqs[r].mediaMime = reqs[r].mimetype

\* C22 (head-of-line retry): a worker pausing for an item that is still
\* queued, after its failed attempt number k < maxAttempts, pauses for k
\* times the base delay; that item is the head of the queue, every send in
\* flight for a queued item is for the head, and no item behind the head
\* has been attempted.
C22_HeadOfLineRetry ==
  /\ \A w \in 1..MaxWorkers :
       (workers[w].pc = "delay" /\ InQueue(workers[w].cur)) =>
         /\ workers[w].cur = Head(queue)
         /\ items[workers[w].cur].attempts >= 1
         /\ items[workers[w].cur].attempts < items[workers[w].cur].maxAttempts
         /\ workers[w].delay = DefaultRateLimitDelay * items[workers[w].cur].attempts
  /\ \A w \in 1..MaxWorkers :
       (workers[w].pc = "sending" /\ InQueue(workers[w].cur)) =>
         workers[w].cur = Head(queue)
  /\ \A n \in 2..Len(queue) :
       items[queue[n]].nSend = 0 /\ items[queue[n]].attempts = 0

\* The head item has failed twice and the worker pauses for twice the base
\* delay while an unattempted item waits behind it.
C22_Witness ==
  \E w \in 1..MaxWorkers :
    /\ workers[w].pc = "delay"
    /\ Len(queue) >= 2
    /\ workers[w].cur = Head(queue)
    /\ items[Head(queue)].attempts = 2
    /\ items[Head(queue)].nSend = 2
    /\ workers[w].delay = 2 * DefaultRateLimitDelay
    /\ items[queue[2]].nSend = 0

\* C23 (queue liveness): an item that is in the queue while the session is
\* Ready and a drain worker runs is eventually out of the queue, and the
\* queue is eventually empty with the worker-active flag false, unless the
\* session stops being Ready or the process ends first.
C23_QueueLiveness ==
  /\ \A i \in 1..MaxItems :
       (InQueue(i) /\ ClientIsReady /\ alive /\ Active # {})
         ~> (~InQueue(i) \/ ~ClientIsReady \/ ~alive)
  /\ (queue # <<>> /\ ClientIsReady /\ alive /\ Active # {})
       ~> ((queue = <<>> /\ ~isProcessing) \/ ~ClientIsReady \/ ~alive)

\* C24 (exactly one outcome): for every item the platform send has succeeded
\* at most once, at most one callback has been invoked for it, once, and an
\* item whose send succeeded has not seen onMessageFailed.
C24_ExactlyOneOutcome ==
  \A x \in Known :
    /\ x.it.nOk <= 1
    /\ x.it.nSentCb + x.it.nFailedCb <= 1
    /\ x.it.nOk >= 1 => x.it.nFailedCb = 0

\* C25 (worker flag released): in a running process isProcessing is true
\* only while an execution of the drain loop is running.
C25_FlagReleased ==
  (alive /\ isProcessing) => Active # {}

\* C26 (removal matches the attempted item): when the continuation of a
\* send removes items from the queue, it removes the item whose send it
\* awaited and no other; an item that leaves the queue unattempted leaves
\* it in a step that empties the queue (clear()).
C26_RemovalMatches ==
  [][/\ \A w \in 1..MaxWorkers :
          (workers[w].pc = "sending" /\ workers'[w] # workers[w]) =>
            Range(queue) \ Range(queue') \subseteq {workers[w].cur}
     /\ \A i \in Range(queue) \ Range(queue') :
          (items[i].nSend = 0 /\ items[i].attempts = 0) => queue' = <<>>
    ]_vars

\* C27 (canonical destination on the queued path): a send issued by the
\* drain loop for an item whose destination is a canonical chat id goes to
\* that chat id, the destination the direct path uses for it.
C27_CanonicalDestination ==
  \A w \in 1..MaxWorkers :
    (workers[w].call # NoSend /\ items[workers[w].cur].to \in CanonicalIn) =>
      workers[w].call.to = DirectDestination(items[workers[w].cur].to)

====
